---- MODULE Spec2Model ----
(***************************************************************************)
(* Model of the ClientJS build orchestrator of nxus/clientjs               *)
(* (src/src/index.js, the webpack module, lines 107-314).                  *)
(*                                                                         *)
(* Strings that the code takes apart (paths, routes) are sequences of      *)
(* tokens: the separator "/" is a token and every file or directory name   *)
(* is a token, so '/assets/clientjs' is <<"/","assets","/","clientjs">>    *)
(* and string concatenation is \o.                                         *)
(***************************************************************************)
EXTENDS Integers, Sequences, FiniteSets, Bags, TLC

VARIABLES
    config,             \* this.config: buildSeries, buildNone, buildOnly, watchify, entries
    blocked,            \* environment: directories the filesystem refuses to create
    dirs,               \* environment: directories that exist (resolved paths)
    establishedRoutes,  \* this._establishedRoutes: route -> path
    staticRoutes,       \* bag of the router.staticRoute(route, path) calls made
    outputPaths,        \* this._outputPaths: outputFile -> promise
    promises,           \* the promises bundle() created, and their webpack run
    builders,           \* this._builders
    launched,           \* the promise of the 'launch' event is resolved
    aggregate,          \* the promise _buildingWhenReady returned (readyToBuild)
    drainLen,           \* length of _builders when Promise.map / mapSeries took it
    invoked,            \* indices of the builders invoked, in invocation order
    results,            \* what each invoked builder returned (or threw)
    drains,             \* number of times _buildingWhenReady has run
    files,              \* environment: the files that exist (resolved paths)
    unreadable,         \* environment: files on which fs.lstatSync fails, not with ENOENT
    uncaught,           \* exceptions thrown out of a callback, caught by nothing
    exit,               \* the buildOnly chain: "none", "stopping" (app.stop), "exited"
    renderContexts,     \* the templater.on('renderContext.'+name, supplier) calls
    componentCache,     \* this._componentCache: entry -> [promise, html]
    copies,             \* the promise.then(copy) of _componentize calls for a cached entry
    onceLaunch,         \* the app.once('launch', ...) handlers of _fromConfigBundles
    launchLen,          \* history kept by LaunchRecorded: length of _builders at the first 'launch'
    original            \* the original browserify module (src/src/ClientJS.js)

vars == <<config, blocked, dirs, establishedRoutes, staticRoutes, outputPaths,
          promises, builders, launched, aggregate, drainLen, invoked, results,
          drains, files, unreadable, uncaught, exit, renderContexts, componentCache, copies,
          onceLaunch, launchLen, original>>

----------------------------------------------------------------------------
(* Bounds of the model. *)

\* at most this many builders are registered
MaxBuilders == 3
\* at most this many webpack runs are started for one output file
MaxRuns == 2
\* at most this many 'launch' events are emitted
MaxLaunch == 2
\* at most this many _componentize calls are made for entries already cached
MaxCopies == 2
\* webpack calls back at most this many times for one run
MaxCallbacks == 2
\* at most this many once('launch') handlers are registered at a time
MaxHandlers == 2
\* config.entries of the original module has at most this many keys
MaxEntries == 3

None == <<>>

----------------------------------------------------------------------------
(* Node's path module, on token sequences. *)

Sep == "/"

IsSep(t) == t = Sep

\* the names of a path: the tokens between separators
Names(p) == SelectSeq(p, LAMBDA t : ~IsSep(t))

\* names joined by single separators, no leading separator
RECURSIVE JoinNames(_)
JoinNames(ns) ==
    IF ns = <<>> THEN <<>>
    ELSE IF Len(ns) = 1 THEN ns
    ELSE <<Head(ns), Sep>> \o JoinNames(Tail(ns))

\* path.dirname (posix)
dirname(p) ==
    IF p = <<>> THEN <<".">>
    ELSE LET hasRoot == IsSep(p[1])
             ends == {i \in 2..Len(p) :
                        IsSep(p[i]) /\ \E j \in (i+1)..Len(p) : ~IsSep(p[j])}
         IN IF ends = {} THEN (IF hasRoot THEN <<Sep>> ELSE <<".">>)
            ELSE LET end == CHOOSE i \in ends : \A k \in ends : k <= i
                 IN IF hasRoot /\ end = 2 THEN <<Sep, Sep>>
                    ELSE SubSeq(p, 1, end - 1)

\* path.basename (posix), for a path that does not end in a separator
basename(p) ==
    LET ns == Names(p) IN IF ns = <<>> THEN <<>> ELSE <<ns[Len(ns)]>>

\* normalisation of a list of names: "." dropped, ".." removes the name before it
RECURSIVE NormNames(_, _)
NormNames(ns, acc) ==
    IF ns = <<>> THEN acc
    ELSE IF Head(ns) = "." THEN NormNames(Tail(ns), acc)
    ELSE IF Head(ns) = ".."
         THEN NormNames(Tail(ns),
                        IF acc = <<>> THEN acc ELSE SubSeq(acc, 1, Len(acc) - 1))
    ELSE NormNames(Tail(ns), Append(acc, Head(ns)))

\* process.cwd()
cwd == <<Sep, "cwd">>

\* path.resolve(p): absolute, normalised, no trailing separator
resolve(p) ==
    LET full == IF p # <<>> /\ IsSep(p[1]) THEN p ELSE cwd \o <<Sep>> \o p
    IN <<Sep>> \o JoinNames(NormNames(Names(full), <<>>))

\* path.join(a, b): the two joined by a separator and normalised (for paths
\* that do not end in a separator and do not climb above their start)
join(a, b) ==
    LET full == a \o <<Sep>> \o b
    IN (IF IsSep(full[1]) THEN <<Sep>> ELSE <<>>)
          \o JoinNames(NormNames(Names(full), <<>>))

\* a resolved directory and the directories above it
AncestorsOrSelf(d) ==
    LET ns == Names(d)
    IN {<<Sep>> \o JoinNames(SubSeq(ns, 1, k)) : k \in 0..Len(ns)}

----------------------------------------------------------------------------
(* Configuration (the defaults of _defaultConfig). *)

routePrefix == <<Sep, "assets", Sep, "clientjs">>
assetFolder == <<".tmp", Sep, "clientjs">>

\* _defaultConfig has no key that selects how the parallel aggregate treats a
\* rejection: nothing configures a strict or a tolerant aggregation
strictAggregation == FALSE

\* the directory _webpackConfig creates with mkdirp.sync
CacheDir == resolve(cwd \o <<Sep, ".tmp", Sep, "cache">>)

\* the asset sub-directory used by the outputs 'sub/...'
SubDir == resolve(assetFolder \o <<Sep, "sub">>)

----------------------------------------------------------------------------
(* Inputs of the operations. *)

\* script arguments of includeScript: two scripts share a basename
Scripts == {<<"src", Sep, "a.js">>, <<"lib", Sep, "a.js">>}

\* templateName arguments of includeScript
Templates == {"index", "page"}

\* the builder a caller registers with _buildWhenReady directly
DirectBuilders ==
    { [entry |-> <<"src", Sep, "b.js">>, output |-> <<"sub", Sep, "b.js">>] }

\* (entry, output) arguments of direct bundle calls
BundleArgs ==
    { [entry |-> <<"src", Sep, "a.js">>, output |-> <<"a.js">>],
      [entry |-> <<"src", Sep, "b.js">>, output |-> <<"sub", Sep, "b.js">>],
      [entry |-> <<"src", Sep, "c.js">>, output |-> <<"sub", Sep, "c.js">>] }

\* the direct bundle calls made while builders are registered and drained
EarlyBundleArgs ==
    { [entry |-> <<"src", Sep, "c.js">>, output |-> <<Sep, "a.js">>] }

\* (route, path) arguments of direct _establishRoute calls
RouteArgs ==
    { [route |-> routePrefix, path |-> assetFolder],
      [route |-> routePrefix \o <<Sep, "sub">>, path |-> assetFolder \o <<Sep, "sub">>],
      [route |-> <<Sep, "alt">>, path |-> assetFolder \o <<Sep, "sub">>],
      [route |-> <<Sep, "alt">>, path |-> <<".tmp", Sep, "other">>] }

\* output files an earlier run of the process may have left behind
StaleFiles == {resolve(assetFolder \o <<Sep, "a.js">>)}

\* directories the environment may refuse to create
Blockable == {SubDir, CacheDir}

\* config.entries, entry -> output, in the order of its keys
EntryLists ==
    LET one == [entry |-> <<"src", Sep, "one.js">>, output |-> <<Sep, "one.js">>]
        two == [entry |-> <<"src", Sep, "two.js">>, output |-> <<Sep, "js", Sep, "two.js">>]
    IN {<<one>>, <<one, two>>}

\* _defaultConfig.assetPrefix of the original module
assetPrefix == <<Sep, "clientjs">>

\* entry -> output pairs of the original module's config.entries: outputs in
\* one directory, written alike and differently, and in other directories
OriginalPairs ==
    { [entry |-> <<"src", Sep, "one.js">>, output |-> <<"out", Sep, "one.js">>],
      [entry |-> <<"src", Sep, "two.js">>, output |-> <<"out", Sep, "two.js">>],
      [entry |-> <<"src", Sep, "three.js">>, output |-> <<".", Sep, "out", Sep, "three.js">>],
      [entry |-> <<"src", Sep, "four.js">>, output |-> <<"four.js">>],
      [entry |-> <<"src", Sep, "five.js">>, output |-> <<"lib", Sep, "five.js">>] }

\* config.entries of the original module, in the order of its keys
OriginalEntryLists ==
    UNION { {es \in [1..n -> OriginalPairs] :
                \A i, j \in 1..n : i # j => es[i].entry # es[j].entry}
            : n \in 1..MaxEntries }

\* outcomes webpack reports to its callback: a fatal error (err), compile
\* errors in the stats (stats.hasErrors()), or success
Outcomes == {"err", "errors", "ok"}

----------------------------------------------------------------------------
(* The part of the state the synchronous code works on, as one record, so   *)
(* that a handler that calls other methods is one step.                     *)

Cur ==
    [ dirs |-> dirs, establishedRoutes |-> establishedRoutes,
      staticRoutes |-> staticRoutes, outputPaths |-> outputPaths,
      promises |-> promises, aggregate |-> aggregate,
      invoked |-> invoked, results |-> results,
      files |-> files, uncaught |-> uncaught, componentCache |-> componentCache,
      copies |-> copies,
      threw |-> None, ret |-> None ]

\* fs.ensureDirSync / mkdirp.sync succeed on this path
CanCreate(path) == AncestorsOrSelf(resolve(path)) \cap blocked = {}

\* the error a failed directory creation throws
FsError(path) == <<"EACCES", resolve(path)>>

\* _establishRoute(route, path) without the _establishedRoutes check
establishRouteAlways(st, route, path) ==
    IF ~CanCreate(path) THEN [st EXCEPT !.threw = FsError(path)]
    ELSE [st EXCEPT !.dirs = @ \cup AncestorsOrSelf(resolve(path)),
                    !.staticRoutes = @ (+) SetToBag({<<route, path>>}),
                    !.establishedRoutes =
                        [r \in DOMAIN @ \cup {route} |-> IF r = route THEN path ELSE @[r]]]

\* _establishRoute(route, path)
establishRoute(st, route, path) ==
    IF route \in DOMAIN st.establishedRoutes THEN st
    ELSE IF ~CanCreate(path) THEN [st EXCEPT !.threw = FsError(path)]
    ELSE [st EXCEPT !.dirs = @ \cup AncestorsOrSelf(resolve(path)),
                    !.staticRoutes = @ (+) SetToBag({<<route, path>>}),
                    !.establishedRoutes = @ @@ (route :> path)]

\* _establishRoute(route, path) of the componentizing module
\* (src/unnamed/part_002, lines 214-220): the directories registered are kept
\* in _outputPaths
establishRouteByPath(st, route, path) ==
    IF ~CanCreate(path) THEN [st EXCEPT !.threw = FsError(path)]
    ELSE LET s == [st EXCEPT !.dirs = @ \cup AncestorsOrSelf(resolve(path))]
         IN IF path \in DOMAIN s.outputPaths THEN s
            ELSE [s EXCEPT !.outputPaths = @ @@ (path :> TRUE),
                           !.staticRoutes = @ (+) SetToBag({<<route, path>>})]

\* number of promises bundle() has created for an output file
RunsOf(st, outputFile) ==
    Cardinality({id \in DOMAIN st.promises : id[1] = outputFile})

\* the promise bundle() creates: the executor runs _webpackConfig (which
\* creates the cache directory and throws when it cannot, so that the promise
\* is born rejected) and then starts webpack
NewPromise(entry, by) ==
    IF CanCreate(CacheDir)
    THEN [state |-> "pending", err |-> None, webpack |-> "running",
          entry |-> entry, by |-> by, reported |-> None, callbacks |-> 0]
    ELSE [state |-> "rejected", err |-> FsError(CacheDir), webpack |-> "none",
          entry |-> entry, by |-> by, reported |-> None, callbacks |-> 0]

\* output with the leading separator bundle() adds
Slashed(output) ==
    IF output # <<>> /\ ~IsSep(output[1]) THEN <<Sep>> \o output ELSE output

\* the key of bundle(entry, output) in _outputPaths
OutputFile(output) == assetFolder \o Slashed(output)

\* a bundle() that builds again when the registered promise is rejected
bundleRetryFailed(st, entry, output, by) ==
    LET out == Slashed(output)
        outputRoute == routePrefix \o dirname(out)
        outputPath == resolve(assetFolder \o dirname(out))
        outputFile == OutputFile(output)
    IN IF /\ outputFile \in DOMAIN st.outputPaths
          /\ st.promises[st.outputPaths[outputFile]].state # "rejected"
       THEN [st EXCEPT !.ret = st.outputPaths[outputFile]]
       ELSE LET id == <<outputFile, RunsOf(st, outputFile) + 1>>
                s1 == [st EXCEPT
                         !.promises = @ @@ (id :> NewPromise(entry, by)),
                         !.dirs = IF CanCreate(CacheDir)
                                  THEN @ \cup AncestorsOrSelf(CacheDir) ELSE @]
                s2 == establishRoute(s1, outputRoute, outputPath)
            IN IF s2.threw # None THEN s2
               ELSE [s2 EXCEPT !.outputPaths =
                        [f \in DOMAIN @ \cup {outputFile} |->
                            IF f = outputFile THEN id ELSE @[f]],
                               !.ret = id]

\* a bundle() whose registry entry serves only the entry it was built from
bundleKeyedByEntry(st, entry, output, by) ==
    LET out == Slashed(output)
        outputRoute == routePrefix \o dirname(out)
        outputPath == resolve(assetFolder \o dirname(out))
        outputFile == OutputFile(output)
    IN IF /\ outputFile \in DOMAIN st.outputPaths
          /\ st.promises[st.outputPaths[outputFile]].entry = entry
       THEN [st EXCEPT !.ret = st.outputPaths[outputFile]]
       ELSE LET id == <<outputFile, RunsOf(st, outputFile) + 1>>
                s1 == [st EXCEPT
                         !.promises = @ @@ (id :> NewPromise(entry, by)),
                         !.dirs = IF CanCreate(CacheDir)
                                  THEN @ \cup AncestorsOrSelf(CacheDir) ELSE @]
                s2 == establishRoute(s1, outputRoute, outputPath)
            IN IF s2.threw # None THEN s2
               ELSE [s2 EXCEPT !.outputPaths =
                        [f \in DOMAIN @ \cup {outputFile} |->
                            IF f = outputFile THEN id ELSE @[f]],
                               !.ret = id]

\* bundle(entry, output); by is the builder that called it (0: a direct call)
bundle(st, entry, output, by) ==
    LET out == Slashed(output)
        outputRoute == routePrefix \o dirname(out)
        outputPath == resolve(assetFolder \o dirname(out))
        outputFile == OutputFile(output)
    IN IF outputFile \in DOMAIN st.outputPaths
       THEN [st EXCEPT !.ret = st.outputPaths[outputFile]]
       ELSE LET id == <<outputFile, RunsOf(st, outputFile) + 1>>
                s1 == [st EXCEPT
                         !.promises = @ @@ (id :> NewPromise(entry, by)),
                         !.dirs = IF CanCreate(CacheDir)
                                  THEN @ \cup AncestorsOrSelf(CacheDir) ELSE @]
                s2 == establishRoute(s1, outputRoute, outputPath)
            IN IF s2.threw # None THEN s2
               ELSE [s2 EXCEPT !.outputPaths = @ @@ (outputFile :> id),
                               !.ret = id]

----------------------------------------------------------------------------
(* The drain: _buildingWhenReady, with bluebird's Promise.map and           *)
(* Promise.mapSeries over this._builders, mapper (x) => x().                *)

\* what an invoked builder produced: "pending", "fulfilled" or "rejected"
\* (a builder that threw counts as rejected with the error thrown)
Outcome(st, i) ==
    IF st.results[i].threw # None THEN "rejected"
    ELSE st.promises[st.results[i].promise].state

\* the reason of a rejected builder
Reason(st, i) ==
    IF st.results[i].threw # None THEN st.results[i].threw
    ELSE st.promises[st.results[i].promise].err

\* the mapper called on builder i: x() is this.bundle(script, outputPath)
\* (atReturn records what the mapper saw when the builder returned)
invoke(st, i) ==
    LET b == builders[i]
        s == bundle([st EXCEPT !.threw = None, !.ret = None], b.entry, b.output, i)
    IN [s EXCEPT !.invoked = Append(@, i),
                 !.results = @ @@ (i :>
                     [threw |-> s.threw, promise |-> s.ret,
                      atReturn |-> IF s.threw # None THEN "rejected"
                                   ELSE s.promises[s.ret].state]),
                 !.threw = None, !.ret = None]

Rejected(err) == [state |-> "rejected", err |-> err]
Fulfilled == [state |-> "fulfilled", err |-> None]
Pending == [state |-> "pending", err |-> None]
NotStarted == [state |-> "none", err |-> None]

\* Promise.map: the mapper is called on the builders in index order, in one
\* turn; bluebird stops calling it once the aggregate is rejected, which
\* happens at once when a mapper call throws or returns a rejected promise
RECURSIVE mapFrom(_, _, _)
mapFrom(st, i, n) ==
    IF i > n THEN st
    ELSE LET s == invoke(st, i)
         IN IF Outcome(s, i) = "rejected"
            THEN [s EXCEPT !.aggregate = Rejected(Reason(s, i))]
            ELSE mapFrom(s, i + 1, n)

\* settleMap with a tolerant aggregate: rejections are not passed on
settleMapTolerant(st, n) ==
    IF st.aggregate.state # "pending" THEN st
    ELSE IF Len(st.invoked) = n
            /\ \A i \in 1..n : Outcome(st, st.invoked[i]) # "pending"
    THEN [st EXCEPT !.aggregate = Fulfilled]
    ELSE st

\* the aggregate of Promise.map follows the promises the mapper returned:
\* rejected with the first rejection, fulfilled when all are fulfilled
settleMap(st, n) ==
    IF st.aggregate.state # "pending" THEN st
    ELSE LET bad == {i \in 1..Len(st.invoked) : Outcome(st, st.invoked[i]) = "rejected"}
         IN IF bad # {}
            THEN [st EXCEPT !.aggregate =
                    Rejected(Reason(st, st.invoked[CHOOSE i \in bad : \A j \in bad : i <= j]))]
            ELSE IF Len(st.invoked) = n
                    /\ \A i \in 1..n : Outcome(st, st.invoked[i]) = "fulfilled"
            THEN [st EXCEPT !.aggregate = Fulfilled]
            ELSE st

\* stepSeries that goes on to the next builder after a rejection
RECURSIVE stepSeriesKeepGoing(_, _)
stepSeriesKeepGoing(st, n) ==
    IF st.aggregate.state # "pending" THEN st
    ELSE IF st.invoked = <<>>
    THEN (IF n = 0 THEN [st EXCEPT !.aggregate = Fulfilled]
          ELSE stepSeriesKeepGoing(invoke(st, 1), n))
    ELSE LET last == st.invoked[Len(st.invoked)]
             o == Outcome(st, last)
         IN IF o = "pending" THEN st
            ELSE IF last = n THEN [st EXCEPT !.aggregate = Fulfilled]
            ELSE stepSeriesKeepGoing(invoke(st, last + 1), n)

\* Promise.mapSeries: the mapper is called on the next builder only when the
\* promise of the one before is fulfilled; a rejection (or a throw) rejects
\* the aggregate and ends the iteration
RECURSIVE stepSeries(_, _)
stepSeries(st, n) ==
    IF st.aggregate.state # "pending" THEN st
    ELSE IF st.invoked = <<>>
    THEN (IF n = 0 THEN [st EXCEPT !.aggregate = Fulfilled]
          ELSE stepSeries(invoke(st, 1), n))
    ELSE LET last == st.invoked[Len(st.invoked)]
             o == Outcome(st, last)
         IN IF o = "pending" THEN st
            ELSE IF o = "rejected"
            THEN [st EXCEPT !.aggregate = Rejected(Reason(st, last))]
            ELSE IF last = n THEN [st EXCEPT !.aggregate = Fulfilled]
            ELSE stepSeries(invoke(st, last + 1), n)

\* _buildingWhenReady without the buildNone return
buildingWhenReadyAlways(st) ==
    LET n == Len(builders)
        s0 == [st EXCEPT !.aggregate = Pending]
    IN IF config.buildSeries THEN stepSeries(s0, n)
       ELSE settleMap(mapFrom(s0, 1, n), n)

\* _buildingWhenReady that uses Promise.map whatever buildSeries is
buildingWhenReadyParallelOnly(st) ==
    IF config.buildNone THEN [st EXCEPT !.aggregate = Fulfilled]
    ELSE LET n == Len(builders)
         IN settleMap(mapFrom([st EXCEPT !.aggregate = Pending], 1, n), n)

\* _buildingWhenReady that leaves the first builder out
buildingWhenReadySkipFirst(st) ==
    IF config.buildNone THEN [st EXCEPT !.aggregate = Fulfilled]
    ELSE LET n == Len(builders)
             s0 == [st EXCEPT !.aggregate = Pending]
         IN IF n = 0 THEN [s0 EXCEPT !.aggregate = Fulfilled]
            ELSE settleMap(mapFrom(s0, 2, n), n)

\* _buildingWhenReady over the builders registered before the first 'launch'
buildingWhenReadyAtLaunch(st) ==
    IF config.buildNone THEN [st EXCEPT !.aggregate = Fulfilled]
    ELSE LET n == launchLen
             s0 == [st EXCEPT !.aggregate = Pending]
         IN IF config.buildSeries THEN stepSeries(s0, n)
            ELSE settleMap(mapFrom(s0, 1, n), n)

\* _buildingWhenReady()
buildingWhenReady(st) ==
    IF config.buildNone THEN [st EXCEPT !.aggregate = Fulfilled]
    ELSE LET n == Len(builders)
             s0 == [st EXCEPT !.aggregate = Pending]
         IN IF config.buildSeries THEN stepSeries(s0, n)
            ELSE settleMap(mapFrom(s0, 1, n), n)

\* the reactions to a settled bundle promise that bluebird runs
propagate(st) ==
    IF st.aggregate.state # "pending" THEN st
    ELSE IF config.buildSeries THEN stepSeries(st, drainLen)
    ELSE settleMap(st, drainLen)

\* what webpack hands to the callback of a run: err for a fatal error,
\* info.errors for compile errors, nothing on success
WebpackError(id, outcome) ==
    IF outcome = "ok" THEN None ELSE <<outcome, id>>

\* info.errors.toString()
toString(errors) == <<"toString", errors>>

\* new Error(message)
Error(message) == <<"Error", message>>

\* the error fs.lstatSync throws on a file it cannot stat, other than ENOENT
LstatError(file) == <<"EACCES", file>>

\* the file a run writes: outputPath and outputFilename of its options
WrittenFile(id) == resolve(id[1])

\* a resolve() and reject() that settle the promise again when called again
settleAgain(p, state, err) == [p EXCEPT !.state = state, !.err = err]

\* resolve() and reject() of a promise: the first call settles it, a later
\* call does nothing
settle(p, state, err) ==
    IF p.state = "pending" THEN [p EXCEPT !.state = state, !.err = err] ELSE p

\* the webpack callback of a run, (err, stats) => {...}: a fatal error
\* rejects with err; compile errors remove the output file (written by this
\* run or left by an earlier one) and reject with a new Error, unless
\* fs.lstatSync throws, which the callback throws on; success resolves, the
\* file having been written.  With watch: config.watchify webpack keeps
\* watching and calls back again after every rebuild.
webpackCallback(st, id, outcome) ==
    LET p == st.promises[id]
        e == WebpackError(id, outcome)
        q == [p EXCEPT !.webpack = IF config.watchify THEN "watching" ELSE "done",
                       !.callbacks = @ + 1,
                       !.reported = IF @ = None
                                    THEN [outcome |-> outcome, error |-> e] ELSE @]
    IN IF outcome = "err"
       THEN [st EXCEPT !.promises[id] = settle(q, "rejected", e)]
       ELSE IF outcome = "errors"
       THEN IF resolve(id[1]) \in unreadable
            THEN [st EXCEPT !.uncaught = Append(@, LstatError(resolve(id[1]))),
                            !.promises[id] = q]
            ELSE [st EXCEPT !.files = @ \ {resolve(id[1])},
                            !.promises[id] = settle(q, "rejected", Error(toString(e)))]
       ELSE [st EXCEPT !.files = @ \cup {WrittenFile(id)},
                       !.promises[id] = settle(q, "fulfilled", None)]

----------------------------------------------------------------------------
(* Actions. *)

\* the original module before its constructor has run, with the entries
\* of app.config.clientjs
OriginalWith(entries) ==
    [config |-> [assetPrefix |-> assetPrefix, entries |-> entries],
     constructed |-> FALSE, setStatic |-> EmptyBag, bundles |-> <<>>]

\* no original module
NotConstructed == OriginalWith(<<>>)

\* _fromConfigBundles(app): one once('launch') handler per key of
\* config.entries, each closing over its own entry and output (let)
fromConfigBundles(entries) ==
    [k \in 1..Len(entries) |-> [entry |-> entries[k].entry, output |-> entries[k].output]]

\* a constructor that registers the base route in buildOnly mode too
ServesAssetsAlways == TRUE

\* the constructor registers the base route unless the process only builds
ServesAssets == ~config.buildOnly

\* the state after new ClientJS(): the constructor, with the _establishRoute
\* of the class (byPath: that of the componentizing module)
ConstructWith(configs, blockable, stale, byPath) ==
    /\ config \in configs
    /\ blocked \in SUBSET blockable
    /\ files \in SUBSET stale
    /\ unreadable \in SUBSET stale
    /\ LET s0 == [ dirs |-> {}, establishedRoutes |-> <<>>, staticRoutes |-> EmptyBag,
                   outputPaths |-> <<>>, promises |-> <<>>, aggregate |-> NotStarted,
                   invoked |-> <<>>, results |-> <<>>,
                   files |-> files, uncaught |-> <<>>, componentCache |-> <<>>,
                   copies |-> <<>>,
                   threw |-> None, ret |-> None ]
           s1 == IF ~ServesAssets THEN s0
                 ELSE IF byPath THEN establishRouteByPath(s0, routePrefix, assetFolder)
                 ELSE establishRoute(s0, routePrefix, assetFolder)
       IN /\ dirs = s1.dirs
          /\ establishedRoutes = s1.establishedRoutes
          /\ staticRoutes = s1.staticRoutes
          /\ outputPaths = s1.outputPaths
          /\ promises = s1.promises
          /\ aggregate = s1.aggregate
          /\ invoked = s1.invoked
          /\ results = s1.results
          /\ uncaught = s1.uncaught
          /\ componentCache = s1.componentCache
          /\ copies = s1.copies
    /\ builders = <<>>
    /\ launched = 0
    /\ drainLen = 0
    /\ drains = 0
    /\ exit = "none"
    /\ renderContexts = <<>>
    /\ onceLaunch = IF byPath THEN fromConfigBundles(config.entries) ELSE <<>>
    /\ launchLen = 0
    /\ original = NotConstructed

\* the state after new ClientJS(): constructor, lines 108-124
Construct(configs, blockable, stale) ==
    ConstructWith(configs, blockable, stale, FALSE)

\* the variables a handler leaves in the record
Commit(st) ==
    /\ dirs' = st.dirs
    /\ establishedRoutes' = st.establishedRoutes
    /\ staticRoutes' = st.staticRoutes
    /\ outputPaths' = st.outputPaths
    /\ promises' = st.promises
    /\ aggregate' = st.aggregate
    /\ invoked' = st.invoked
    /\ results' = st.results
    /\ files' = st.files
    /\ uncaught' = st.uncaught
    /\ componentCache' = st.componentCache
    /\ copies' = st.copies

\* the process runs: no uncaught exception has ended it and it has not exited
Alive == uncaught = <<>> /\ exit # "exited"

\* no output file has more runs than the model allows
WithinRuns(st) == \A id \in DOMAIN st.promises : id[2] <= MaxRuns

\* _buildWhenReady(builder)
buildWhenReady(builder) ==
    /\ Alive
    /\ Len(builders) < MaxBuilders
    /\ builders' = Append(builders, builder)
    /\ UNCHANGED <<config, blocked, dirs, establishedRoutes, staticRoutes, outputPaths,
                   promises, launched, aggregate, drainLen, invoked, results,
                   drains, files, unreadable, uncaught, exit, componentCache, copies,
                   onceLaunch, launchLen, original>>

\* the scripts of includeScript under the path of the script, not its basename
scriptsUnderScriptPath(script) == <<join(routePrefix, script)>>

\* an output path that keeps the directory of the script
scriptOutputPathWithDirectory(script) == script

\* const scriptName = path.basename(script); let outputPath = scriptName
scriptOutputPath(script) == basename(script)

\* const scripts = [path.join(this.config.routePrefix, outputPath)]
scripts(script) == <<join(routePrefix, scriptOutputPath(script))>>

\* the supplier includeScript registers with templater.on, by the event it is
\* registered under and the render context it returns
supplier(templateName, script) ==
    [ event |-> <<"renderContext.", templateName>>,
      context |-> [headScripts |-> <<>>, scripts |-> scripts(script), imports |-> <<>>] ]

\* includeScript(templateName, script)
IncludeScript(templates) ==
    \E templateName \in templates, script \in Scripts :
        /\ renderContexts' = Append(renderContexts, supplier(templateName, script))
        /\ buildWhenReady([entry |-> script, output |-> scriptOutputPath(script)])

\* _buildWhenReady(() => this.bundle(entry, output)) by a caller
BuildWhenReady ==
    \E a \in DirectBuilders :
        /\ buildWhenReady(a)
        /\ UNCHANGED renderContexts

\* a direct call bundle(entry, output)
Bundle(args) ==
    \E a \in args :
        LET s == bundle(Cur, a.entry, a.output, 0)
        IN /\ Alive
           /\ WithinRuns(s)
           /\ s # Cur
           /\ Commit(s)
           /\ UNCHANGED <<config, blocked, builders, launched, drainLen,
                          drains, unreadable, exit, renderContexts,
                          onceLaunch, launchLen, original>>

\* a direct call _establishRoute(route, path)
EstablishRoute ==
    \E a \in RouteArgs :
        LET s == establishRoute(Cur, a.route, a.path)
        IN /\ Alive
           /\ s.threw = None
           /\ s # Cur
           /\ Commit(s)
           /\ UNCHANGED <<config, blocked, builders, launched, drainLen,
                          drains, unreadable, exit, renderContexts,
                          onceLaunch, launchLen, original>>

\* the once('launch') handlers run by an emit, in registration order: each
\* calls this.bundle(entry, output); an exception leaves the emit, and the
\* handlers after it are not called and stay registered
RECURSIVE runOnce(_, _)
runOnce(st, handlers) ==
    IF handlers = <<>> THEN <<st, handlers>>
    ELSE LET h == Head(handlers)
             s == bundle([st EXCEPT !.threw = None, !.ret = None], h.entry, h.output, 0)
         IN IF s.threw # None THEN <<s, Tail(handlers)>>
            ELSE runOnce(s, Tail(handlers))

\* app.emit('launch'): the handler of the constructor resolves the promise,
\* and the once-handlers of _fromConfigBundles run
launch ==
    /\ Alive
    /\ launched < MaxLaunch
    /\ launched' = launched + 1
    /\ LET r == runOnce(Cur, onceLaunch)
       IN /\ WithinRuns(r[1])
          /\ Commit([r[1] EXCEPT !.threw = None, !.ret = None])
          /\ onceLaunch' = r[2]
    /\ UNCHANGED <<config, blocked, builders, drainLen, drains, unreadable, exit,
                   renderContexts, original>>

\* app.emit('launch')
Launch == launch /\ UNCHANGED launchLen

\* a call _fromConfigBundles(app) (the constructor of the class makes none;
\* that of the componentizing module makes one)
FromConfigBundles ==
    /\ Alive
    /\ config.entries # <<>>
    /\ Len(onceLaunch) + Len(config.entries) <= MaxHandlers
    /\ onceLaunch' = onceLaunch \o fromConfigBundles(config.entries)
    /\ UNCHANGED <<config, blocked, dirs, establishedRoutes, staticRoutes, outputPaths,
                   promises, builders, launched, aggregate, drainLen, invoked, results,
                   drains, files, unreadable, uncaught, exit, renderContexts,
                   componentCache, copies, launchLen, original>>

\* the same emit, recording how many builders were registered before the
\* first 'launch'
LaunchRecorded ==
    /\ launch
    /\ launchLen' = IF launched = 0 THEN Len(builders) ELSE launchLen

\* a launch promise that counts as resolved from construction on
ReadyToBuildAlways == TRUE

\* the promise of the constructor is resolved: 'launch' has been emitted
ReadyToBuild == launched > 0

\* a then-callback that runs again for every 'launch' emitted
DrainPendingPerLaunch == drains < launched

\* the then-callback of the launch promise has not run yet: a promise is
\* resolved once, and calls its then-callback once
DrainPending == drains = 0

\* the then-callback of the launch promise: _buildingWhenReady
Drain ==
    /\ Alive
    /\ ReadyToBuild
    /\ DrainPending
    /\ LET s == buildingWhenReady(Cur)
       IN /\ WithinRuns(s)
          /\ Commit(s)
    /\ drainLen' = Len(builders)
    /\ drains' = drains + 1
    /\ UNCHANGED <<config, blocked, builders, launched, unreadable, exit, renderContexts,
                   onceLaunch, launchLen, original>>

\* webpack calls back for a run
WebpackCallback ==
    \E id \in DOMAIN promises, outcome \in Outcomes :
        /\ Alive
        /\ promises[id].webpack \in {"running", "watching"}
        /\ promises[id].callbacks < MaxCallbacks
        /\ Commit(propagate(webpackCallback(Cur, id, outcome)))
        /\ UNCHANGED <<config, blocked, builders, launched, drainLen,
                       drains, unreadable, exit, renderContexts,
                       onceLaunch, launchLen, original>>

\* a then-callback that runs as soon as 'launch' was emitted
StopDueAtLaunch == launched > 0

\* the then-callback of readyToBuild runs when the drain is fulfilled
StopDue == aggregate.state = "fulfilled"

\* buildOnly: readyToBuild.then(app.stop.bind(app)), the then-callback of
\* the fulfilled drain
Stop ==
    /\ Alive
    /\ config.buildOnly
    /\ StopDue
    /\ exit = "none"
    /\ exit' = "stopping"
    /\ UNCHANGED <<config, blocked, dirs, establishedRoutes, staticRoutes, outputPaths,
                   promises, builders, launched, aggregate, drainLen, invoked, results,
                   drains, files, unreadable, uncaught, renderContexts, componentCache, copies,
                   onceLaunch, launchLen, original>>

\* buildOnly: .then(process.exit.bind(process)), once app.stop has completed
Exit ==
    /\ Alive
    /\ exit = "stopping"
    /\ exit' = "exited"
    /\ UNCHANGED <<config, blocked, dirs, establishedRoutes, staticRoutes, outputPaths,
                   promises, builders, launched, aggregate, drainLen, invoked, results,
                   drains, files, unreadable, uncaught, renderContexts, componentCache, copies,
                   onceLaunch, launchLen, original>>

\* the environment removes what kept a directory from being created
Unblock ==
    \E d \in blocked :
        /\ blocked' = blocked \ {d}
        /\ UNCHANGED <<config, dirs, establishedRoutes, staticRoutes, outputPaths,
                       promises, builders, launched, aggregate, drainLen, invoked, results,
                       drains, files, unreadable, uncaught, exit, renderContexts,
                       componentCache, copies,
                       onceLaunch, launchLen, original>>

\* every configuration of the three build flags, with watchify unset (one
\* callback per run) and no configured entries
Configs ==
    [buildSeries : BOOLEAN, buildNone : BOOLEAN, buildOnly : BOOLEAN,
     watchify : {FALSE}, entries : {<<>>}]

(* Registration, launch and drain of the builders, with the bundler's       *)
(* callbacks and a direct bundle call that shares an output with a builder. *)
Init == Construct({c \in Configs : ~c.buildOnly}, {SubDir}, {})

Next ==
    \/ IncludeScript({"index"})
    \/ BuildWhenReady
    \/ Bundle(EarlyBundleArgs)
    \/ Launch
    \/ Drain
    \/ WebpackCallback

Spec == Init /\ [][Next]_vars

(* Routes and the output registry: construction, then any direct bundle     *)
(* and _establishRoute calls, and the filesystem. The bundler's callbacks   *)
(* touch neither the route table nor the keys of the registry.              *)
InitRoutes ==
    Construct({c \in Configs : ~c.buildSeries /\ ~c.buildNone}, Blockable, {})

NextRoutes ==
    \/ Bundle(BundleArgs)
    \/ EstablishRoute
    \/ Unblock

SpecRoutes == InitRoutes /\ [][NextRoutes]_vars

(* Builds and the files they write or leave: output files left by an        *)
(* earlier run, some of which cannot be examined.                           *)
InitBuild == Construct({c \in Configs : ~c.buildOnly}, {}, StaleFiles)

NextBuild ==
    \/ IncludeScript({"index"})
    \/ Bundle(EarlyBundleArgs)
    \/ Launch
    \/ Drain
    \/ WebpackCallback

SpecBuild == InitBuild /\ [][NextBuild]_vars

(* The exit of a buildOnly process, next to processes that stay: every      *)
(* configuration. The callbacks of webpack, of the settled drain (app.stop)  *)
(* and of app.stop (process.exit) are not put off for ever.                 *)
InitExit == Construct(Configs, {}, {})

NextExit ==
    \/ IncludeScript({"index"})
    \/ Launch
    \/ Drain
    \/ WebpackCallback
    \/ Stop
    \/ Exit

SpecExit ==
    /\ InitExit /\ [][NextExit]_vars
    /\ WF_vars(WebpackCallback) /\ WF_vars(Stop) /\ WF_vars(Exit)

(* includeScript under two templates, with registration, launch, drain and  *)
(* the bundler's callbacks.                                                 *)
InitInclude == Construct({c \in Configs : ~c.buildOnly /\ ~c.buildNone}, {}, {})

NextInclude ==
    \/ IncludeScript(Templates)
    \/ BuildWhenReady
    \/ Launch
    \/ Drain
    \/ WebpackCallback

SpecInclude == InitInclude /\ [][NextInclude]_vars

(* Late registration: includeScript calls before and after 'launch', with   *)
(* the number of builders registered before the first 'launch' recorded.    *)
InitLate == Construct({c \in Configs : ~c.buildOnly}, {}, {})

NextLate ==
    \/ IncludeScript({"index"})
    \/ LaunchRecorded
    \/ Drain
    \/ WebpackCallback

SpecLate == InitLate /\ [][NextLate]_vars

(* Watch mode: watchify is set (the default), so webpack keeps watching and *)
(* calls back again after every rebuild of an output.                       *)
WatchConfigs ==
    [buildSeries : BOOLEAN, buildNone : {FALSE}, buildOnly : {FALSE},
     watchify : {TRUE}, entries : {<<>>}]

InitWatch == Construct(WatchConfigs, {}, {})

NextWatch ==
    \/ IncludeScript({"index"})
    \/ Bundle(EarlyBundleArgs)
    \/ Launch
    \/ Drain
    \/ WebpackCallback

SpecWatch == InitWatch /\ [][NextWatch]_vars

(* Configured entries: config.entries is set, templates include scripts,    *)
(* and _fromConfigBundles may be called.                                     *)
EntryConfigs ==
    [buildSeries : {FALSE}, buildNone : {FALSE}, buildOnly : {FALSE},
     watchify : {FALSE}, entries : EntryLists]

InitEntries == Construct(EntryConfigs, {}, {})

NextEntries ==
    \/ FromConfigBundles
    \/ IncludeScript({"index"})
    \/ Launch
    \/ Drain
    \/ WebpackCallback

SpecEntries == InitEntries /\ [][NextEntries]_vars

----------------------------------------------------------------------------
(* Components: _componentize of the componentizing module                   *)
(* (src/unnamed/part_002, lines 213-285), whose _establishRoute keeps the   *)
(* directories it has registered in _outputPaths.                           *)

\* (entry, outputHTML) arguments of _componentize calls
ComponentArgs ==
    { [entry |-> <<"x.html">>, outputHTML |-> <<"index-x.html">>],
      [entry |-> <<"x.html">>, outputHTML |-> <<"page-x.html">>],
      [entry |-> <<"y.html">>, outputHTML |-> <<"sub", Sep, "y.html">>] }

\* component files an earlier run of the process may have left behind
StaleComponents == {resolve(assetFolder \o <<Sep, "page-x.html">>)}

\* outcomes of vulcanize.process: an error handed to the callback, an
\* exception thrown while the callback transforms and writes the result
\* (crisper, babel.transform, fs.writeFileSync), or success
ComponentOutcomes == {"err", "throws", "ok"}

\* the file _componentize(entry, outputHTML) writes
ComponentFile(outputHTML) ==
    LET d == dirname(outputHTML)
        outputHTMLDir == IF d = <<".">> THEN <<>> ELSE d
    IN join(resolve(join(assetFolder, outputHTMLDir)), basename(outputHTML))

\* the promise of a new component build: new Promise(executor).catch(log),
\* with vulcanize.process started by the executor
NewComponent(outputFile) ==
    [ promise |-> [state |-> "pending", err |-> None,
                   vulcanize |-> "running", reported |-> None],
      html |-> outputFile ]

\* a _componentize that builds a cached entry again for the new output
componentizeRebuilding(st, entry, outputHTML) ==
    LET d == dirname(outputHTML)
        outputHTMLDir == IF d = <<".">> THEN <<>> ELSE d
        outputRoute == routePrefix \o outputHTMLDir
        outputPath == resolve(join(assetFolder, outputHTMLDir))
        outputFile == ComponentFile(outputHTML)
        s1 == establishRouteByPath(st, outputRoute, outputPath)
    IN IF s1.threw # None THEN s1
       ELSE [s1 EXCEPT !.componentCache =
                [e \in DOMAIN @ \cup {entry} |->
                    IF e = entry THEN NewComponent(outputFile) ELSE @[e]],
                       !.ret = <<"component", entry>>]

\* _componentize(entry, outputHTML), lines 222-285
componentize(st, entry, outputHTML) ==
    LET d == dirname(outputHTML)
        outputHTMLDir == IF d = <<".">> THEN <<>> ELSE d
        outputRoute == routePrefix \o outputHTMLDir
        outputPath == resolve(join(assetFolder, outputHTMLDir))
        outputFile == ComponentFile(outputHTML)
        s1 == establishRouteByPath(st, outputRoute, outputPath)
    IN IF s1.threw # None THEN s1
       ELSE IF entry \in DOMAIN s1.componentCache
       THEN [s1 EXCEPT !.copies = Append(@, [entry |-> entry, to |-> outputFile,
                                             state |-> "pending", err |-> None]),
                       !.ret = <<"copy", Len(st.copies) + 1>>]
       ELSE [s1 EXCEPT !.componentCache = @ @@ (entry :> NewComponent(outputFile)),
                       !.ret = <<"component", entry>>]

\* the error vulcanize hands to its callback, or the exception thrown in it
ComponentError(entry, outcome) ==
    IF outcome = "ok" THEN None ELSE <<outcome, entry>>

\* the callback of vulcanize.process, (err, html) => {...}, with the
\* .catch((err) => log) chained on the promise: an error is rejected and
\* then caught and logged, so that the promise in the cache is fulfilled;
\* an exception thrown by the callback itself is caught by nothing
vulcanizeCallback(st, entry, outcome) ==
    LET c == st.componentCache[entry]
        q == [c.promise EXCEPT !.vulcanize = "done",
                 !.reported = [outcome |-> outcome, error |-> ComponentError(entry, outcome)]]
    IN IF outcome = "err"
       THEN [st EXCEPT !.componentCache[entry].promise = [q EXCEPT !.state = "fulfilled"]]
       ELSE IF outcome = "throws"
       THEN [st EXCEPT !.uncaught = Append(@, ComponentError(entry, outcome)),
                       !.componentCache[entry].promise = q]
       ELSE [st EXCEPT !.files = @ \cup {c.html},
                       !.componentCache[entry].promise = [q EXCEPT !.state = "fulfilled"]]

\* the then-callback of a _componentize call for a cached entry: it removes
\* a symbolic link at outputFile and copies the built file there; what it
\* throws rejects the promise the call returned
copyCallback(st, k) ==
    LET job == st.copies[k]
        html == st.componentCache[job.entry].html
    IN IF job.to \in unreadable
       THEN [st EXCEPT !.copies[k].state = "rejected", !.copies[k].err = LstatError(job.to)]
       ELSE IF html \notin st.files
       THEN [st EXCEPT !.copies[k].state = "rejected", !.copies[k].err = <<"ENOENT", html>>]
       ELSE [st EXCEPT !.copies[k].state = "fulfilled", !.files = @ \cup {job.to}]

\* a call _componentize(entry, outputHTML)
Componentize ==
    \E a \in ComponentArgs :
        LET s == componentize(Cur, a.entry, a.outputHTML)
        IN /\ Alive
           /\ s.threw = None
           /\ Len(s.copies) <= MaxCopies
           /\ Commit([s EXCEPT !.ret = None])
           /\ UNCHANGED <<config, blocked, builders, launched, drainLen,
                          drains, unreadable, exit, renderContexts,
                          onceLaunch, launchLen, original>>

\* vulcanize calls back for the build of an entry
VulcanizeCallback ==
    \E entry \in DOMAIN componentCache, outcome \in ComponentOutcomes :
        /\ Alive
        /\ componentCache[entry].promise.vulcanize = "running"
        /\ Commit(vulcanizeCallback(Cur, entry, outcome))
        /\ UNCHANGED <<config, blocked, builders, launched, drainLen,
                       drains, unreadable, exit, renderContexts,
                       onceLaunch, launchLen, original>>

\* the promise of a cached entry is fulfilled: a copy waiting on it runs
CopyCallback ==
    \E k \in 1..Len(copies) :
        /\ Alive
        /\ copies[k].state = "pending"
        /\ componentCache[copies[k].entry].promise.state = "fulfilled"
        /\ Commit(copyCallback(Cur, k))
        /\ UNCHANGED <<config, blocked, builders, launched, drainLen,
                       drains, unreadable, exit, renderContexts,
                       onceLaunch, launchLen, original>>

InitComponents ==
    ConstructWith({c \in Configs : ~c.buildSeries /\ ~c.buildNone}, {SubDir},
                  StaleComponents, TRUE)

NextComponents ==
    \/ Componentize
    \/ VulcanizeCallback
    \/ CopyCallback
    \/ Unblock

SpecComponents == InitComponents /\ [][NextComponents]_vars

----------------------------------------------------------------------------
(* Properties. *)

\* the drain has run
Drained == aggregate.state # "none"

\* builder i has been invoked
IsInvoked(i) == \E k \in 1..Len(invoked) : invoked[k] = i

\* the webpack runs started for an output file
StartedRuns(f) == {id \in DOMAIN promises : id[1] = f /\ promises[id].webpack # "none"}

\* the router.staticRoute calls whose path is the directory d
CallsForDir(d) ==
    LET cs == {c \in DOMAIN staticRoutes : resolve(c[2]) = d}
    IN BagCardinality([c \in cs |-> staticRoutes[c]])

\* the router.staticRoute calls of a state record for a route
CallsForRoute(st, route) ==
    LET cs == {c \in DOMAIN st.staticRoutes : c[1] = route}
    IN BagCardinality([c \in cs |-> st.staticRoutes[c]])

(* C1: for every output path, whatever bundle calls are made, webpack is    *)
(* started at most once for it and the registry holds the one promise all   *)
(* calls return.                                                            *)
C1_AtMostOneRunPerOutput ==
    /\ \A id \in DOMAIN promises : Cardinality(StartedRuns(id[1])) <= 1
    /\ \A f \in DOMAIN outputPaths :
          outputPaths[f] \in DOMAIN promises /\ outputPaths[f][1] = f

(* C2: before 'launch' has been emitted no registered builder has been      *)
(* invoked, and no bundle was started on behalf of a builder.               *)
C2_NoBuildBeforeLaunch ==
    launched = 0 =>
        /\ invoked = <<>>
        /\ results = <<>>
        /\ \A id \in DOMAIN promises : promises[id].by = 0

\* builders of both kinds are registered and 'launch' has not been emitted
C2_Witness ==
    /\ launched = 0
    /\ \E i, j \in 1..Len(builders) : builders[i].output # builders[j].output

C4_SeriesOneAtATime ==
    config.buildSeries =>
        /\ \A k \in 1..Len(invoked) : invoked[k] = k
        /\ \A k \in 1..(Len(invoked) - 1) : Outcome(Cur, invoked[k]) # "pending"

\* series mode, three builders invoked, the last still building
C4_Witness ==
    /\ config.buildSeries
    /\ Len(invoked) >= 3
    /\ Outcome(Cur, invoked[Len(invoked)]) = "pending"

\* builder i was invoked and the promise it returned is rejected
PromiseRejected(i) ==
    IsInvoked(i) /\ results[i].threw = None /\ Outcome(Cur, i) = "rejected"

(* C5: in parallel mode, when the promise of one builder is rejected, the   *)
(* other registered builders are still invoked.                             *)
C5_ParallelSiblingsStillInvoked ==
    ( /\ Drained /\ ~config.buildSeries /\ ~config.buildNone
      /\ \E i \in 1..drainLen : PromiseRejected(i) )
    => \A i \in 1..drainLen : IsInvoked(i)

(* C6: in series mode, when builder k is rejected no builder registered     *)
(* after it is ever invoked and the aggregate is rejected with the failure  *)
(* of builder k.                                                            *)
C6_SeriesHaltsOnRejection ==
    config.buildSeries =>
        \A k \in 1..drainLen :
            (IsInvoked(k) /\ Outcome(Cur, k) = "rejected") =>
                /\ \A i \in (k+1)..Len(builders) : ~IsInvoked(i)
                /\ aggregate = Rejected(Reason(Cur, k))

\* series mode, a builder was rejected and a later one is registered
C6_Witness ==
    /\ config.buildSeries
    /\ \E k \in 1..drainLen :
          /\ IsInvoked(k) /\ Outcome(Cur, k) = "rejected"
          /\ k >= 2 /\ k < drainLen

C8_OneStaticRoutePerDirectory ==
    \A c \in DOMAIN staticRoutes : CallsForDir(resolve(c[2])) <= 1

C10_BuildNoneSkipsAll ==
    config.buildNone =>
        /\ invoked = <<>>
        /\ results = <<>>
        /\ \A id \in DOMAIN promises : promises[id].by = 0
        /\ aggregate.state \in {"none", "fulfilled"}

\* buildNone, builders registered, and the drain has run
C10_Witness ==
    /\ config.buildNone
    /\ Drained
    /\ drainLen >= 2

(* C11: a builder registered after the launch gate has opened and the       *)
(* drain has run is invoked at once: with buildNone unset, no builder       *)
(* registered after the drain is left un-invoked.                           *)
C11_LateTaskInvokedAtOnce ==
    (Drained /\ ~config.buildNone) =>
        \A i \in (drainLen + 1)..Len(builders) : IsInvoked(i)

\* invoked holds no builder twice
NoBuilderInvokedTwice ==
    \A j, k \in 1..Len(invoked) : invoked[j] = invoked[k] => j = k

(* C12: the launch gate opens once: however many times 'launch' is          *)
(* emitted, _buildingWhenReady runs at most once, not before the first      *)
(* 'launch', and no registered builder is invoked twice.                    *)
C12_DrainRunsOnce ==
    /\ drains <= 1
    /\ drains <= launched
    /\ Drained <=> drains = 1
    /\ NoBuilderInvokedTwice

\* 'launch' was emitted twice and the drain has invoked two builders
C12_Witness ==
    /\ launched >= 2
    /\ drains = 1
    /\ Len(invoked) >= 2

\* a bundle call for a registered output returns the registered promise and
\* starts nothing
ReturnsRegistered(a) ==
    LET s == bundle(Cur, a.entry, a.output, 0)
    IN OutputFile(a.output) \in DOMAIN outputPaths =>
          /\ s.ret = outputPaths[OutputFile(a.output)]
          /\ [s EXCEPT !.ret = None] = Cur

\* a step keeps every registry entry, and every settled promise as it is
KeepsEntries ==
    /\ \A f \in DOMAIN outputPaths :
          f \in DOMAIN outputPaths' /\ outputPaths'[f] = outputPaths[f]
    /\ \A id \in DOMAIN promises :
          /\ id \in DOMAIN promises'
          /\ promises[id].state # "pending" =>
                /\ promises'[id].state = promises[id].state
                /\ promises'[id].err = promises[id].err

(* C13: per output path the status only moves from unbuilt to building to   *)
(* built or failed: a registry entry is never removed or replaced, a        *)
(* settled promise never changes, and a bundle call for a registered path,  *)
(* failed or not, returns the registered promise without building again.    *)
C13_RegistryEntriesAreTerminal ==
    /\ [](\A a \in EarlyBundleArgs \cup BundleArgs : ReturnsRegistered(a))
    /\ [][KeepsEntries]_vars

\* a builder asked for an output whose direct build had failed, and got the
\* rejected promise of that build
C13_Witness ==
    \E i \in 1..Len(invoked) :
        /\ results[i].threw = None
        /\ promises[results[i].promise].by = 0
        /\ promises[results[i].promise].state = "rejected"
        /\ results[i].atReturn = "rejected"

\* the rejection reason e carries the error E that webpack reported: it is
\* E, or the Error made of E's text
Carries(e, E) == e = E \/ e = Error(toString(E))

\* the runs whose callback reported a failure
FailedRuns == {id \in DOMAIN promises :
                  promises[id].reported # None /\ promises[id].reported.outcome # "ok"}

(* C14: when the build of an output has failed with error E, the promise    *)
(* bundle returned for that output is rejected, and rejected with E.        *)
C14_FailureRejectsWithError ==
    \A id \in FailedRuns :
        /\ promises[id].state = "rejected"
        /\ Carries(promises[id].err, promises[id].reported.error)

(* C15: after a failed build of an output, fatal error or compile errors,   *)
(* no file exists at the output's path once the promise is rejected.        *)
C15_NoFileAfterFailure ==
    \A id \in FailedRuns :
        promises[id].state = "rejected" => WrittenFile(id) \notin files

(* C16: in buildOnly mode, once 'launch' has been emitted and the drain has *)
(* started the builds, the exit of the process is eventually requested      *)
(* (app.stop, then process.exit), whether the builds succeed or fail.       *)
C16_BuildOnlyExits ==
    (config.buildOnly /\ Drained) ~> (exit # "none")

(* C17: no failure of a build ends in an uncaught exception: nothing is     *)
(* ever thrown out of a callback of the bundler.                            *)
C17_NoUncaughtException ==
    uncaught = <<>>

(* C18: when the build of a component has failed in the underlying tool     *)
(* with an error, the promise _componentize returned for it is rejected     *)
(* with that error.                                                         *)
C18_ComponentFailureRejects ==
    \A entry \in DOMAIN componentCache :
        LET p == componentCache[entry].promise
        IN (p.reported # None /\ p.reported.outcome = "err") =>
              /\ p.state = "rejected"
              /\ p.err = p.reported.error

\* the effect expected of includeScript(templateName, script): one supplier
\* under 'renderContext.'+templateName whose scripts are the route prefix,
\* a separator and the last name of the script; one builder more; no build
\* started and nothing else touched
IncludeScriptEffect(templateName, script) ==
    /\ renderContexts' = Append(renderContexts,
          [ event |-> <<"renderContext.", templateName>>,
            context |-> [ headScripts |-> <<>>,
                          scripts |-> << routePrefix \o <<Sep, script[Len(script)]>> >>,
                          imports |-> <<>> ] ])
    /\ Len(builders') = Len(builders) + 1
    /\ SubSeq(builders', 1, Len(builders)) = builders
    /\ builders'[Len(builders')] = [entry |-> script, output |-> <<script[Len(script)]>>]
    /\ UNCHANGED <<outputPaths, promises, invoked, results, aggregate, drains,
                   establishedRoutes, staticRoutes, dirs, files, launched>>

(* C19: each includeScript(templateName, script) call registers one         *)
(* supplier under 'renderContext.'+templateName, appends one builder to the *)
(* pending list, starts no build and leaves the output registry unchanged;  *)
(* the supplier returns scripts = [routePrefix joined with                  *)
(* basename(script)].                                                       *)
C19_IncludeScriptFrame ==
    [][renderContexts' # renderContexts =>
          \E templateName \in Templates, script \in Scripts :
              IncludeScriptEffect(templateName, script)]_vars

\* includeScript was called for two templates, once after the drain had
\* started builds
C19_Witness ==
    /\ \E i, j \in 1..Len(renderContexts) :
          renderContexts[i].event # renderContexts[j].event
    /\ Drained /\ promises # <<>>
    /\ Len(builders) > drainLen

(* C20: with buildOnly unset, construction registers the base static route  *)
(* routePrefix -> assetFolder, once, before any 'launch', and it is never   *)
(* registered again; with buildOnly set, construction registers no static   *)
(* route: none is registered before a bundle call registers its own.        *)
C20_BaseRouteAtConstruction ==
    /\ ~config.buildOnly =>
          /\ routePrefix \in DOMAIN establishedRoutes
          /\ establishedRoutes[routePrefix] = assetFolder
          /\ CallsForRoute(Cur, routePrefix) = 1
          /\ BagIn(<<routePrefix, assetFolder>>, staticRoutes)
          /\ resolve(assetFolder) \in dirs
    /\ (config.buildOnly /\ promises = <<>>) =>
          /\ staticRoutes = EmptyBag
          /\ establishedRoutes = <<>>

\* buildOnly unset: a bundle has registered its route next to the base
\* route of the constructor
C20_Witness ==
    /\ ~config.buildOnly
    /\ launched > 0
    /\ Cardinality(DOMAIN staticRoutes) >= 2

\* a run was started for the output file of the pair, from its entry
BundledPair(pair) ==
    \E id \in DOMAIN promises :
        /\ id[1] = OutputFile(pair.output)
        /\ promises[id].entry = pair.entry
        /\ promises[id].webpack # "none"

(* C21: once 'launch' has been emitted, bundle has been invoked for every   *)
(* entry -> output pair of config.entries: a run from that entry exists for *)
(* that output.                                                             *)
C21_ConfiguredEntriesBundled ==
    launched > 0 =>
        \A k \in 1..Len(config.entries) : BundledPair(config.entries[k])

----------------------------------------------------------------------------
(* The original browserify module (src/src/ClientJS.js): its constructor    *)
(* registers the static routes and requests the bundles of config.entries.  *)

\* output_dir in output_dirs: the object is keyed by the text of the directory
InOutputDirs(output_dir, output_dirs) == output_dir \in output_dirs

\* fromConfigBundles(app), from the entry at the head of entries on
RECURSIVE fromConfigBundlesOriginal(_, _, _)
fromConfigBundlesOriginal(o, entries, output_dirs) ==
    IF entries = <<>> THEN o
    ELSE LET entry == Head(entries).entry
             output == Head(entries).output
             output_dir == dirname(output)
             o1 == IF InOutputDirs(output_dir, output_dirs) THEN o
                   ELSE [o EXCEPT !.setStatic = @ (+) SetToBag(
                            {<<join(o.config.assetPrefix, output_dir),
                               resolve(output_dir)>>})]
             o2 == [o1 EXCEPT !.bundles =
                       Append(@, [entry |-> entry, output |-> output])]
         IN fromConfigBundlesOriginal(o2, Tail(entries), output_dirs \cup {output_dir})

\* new ClientJS(app) of the original module
ConstructOriginal ==
    /\ ~original.constructed
    /\ original' = fromConfigBundlesOriginal([original EXCEPT !.constructed = TRUE],
                                             original.config.entries, {})
    /\ UNCHANGED <<config, blocked, dirs, establishedRoutes, staticRoutes, outputPaths,
                   promises, builders, launched, aggregate, drainLen, invoked, results,
                   drains, files, unreadable, uncaught, exit, renderContexts,
                   componentCache, copies, onceLaunch, launchLen>>

InitOriginal ==
    /\ config \in {c \in Configs : ~c.buildSeries /\ ~c.buildNone /\ ~c.buildOnly}
    /\ blocked = {} /\ dirs = {} /\ files = {} /\ unreadable = {}
    /\ establishedRoutes = <<>> /\ staticRoutes = EmptyBag /\ outputPaths = <<>>
    /\ promises = <<>> /\ builders = <<>> /\ launched = 0
    /\ aggregate = NotStarted /\ drainLen = 0 /\ invoked = <<>> /\ results = <<>>
    /\ drains = 0 /\ uncaught = <<>> /\ exit = "none" /\ renderContexts = <<>>
    /\ componentCache = <<>> /\ copies = <<>> /\ onceLaunch = <<>> /\ launchLen = 0
    /\ original \in {OriginalWith(es) : es \in OriginalEntryLists}

NextOriginal == ConstructOriginal

SpecOriginal == InitOriginal /\ [][NextOriginal]_vars

\* the setStatic calls of the original module whose directory is d
SetStaticCallsFor(d) ==
    LET cs == {c \in DOMAIN original.setStatic : c[2] = d}
    IN BagCardinality([c \in cs |-> original.setStatic[c]])

(* C22: construction of the original module requests bundle(entry, output)  *)
(* exactly once per configured entry, and registers the static route        *)
(* join(assetPrefix, dirname(output)) -> resolve(dirname(output)) exactly   *)
(* once per distinct output directory, however many entries share it.       *)
C22_OneRequestPerEntryOneRoutePerDirectory ==
    original.constructed =>
        LET entries == original.config.entries
        IN /\ original.bundles = entries
           /\ \A k \in 1..Len(entries) :
                 SetStaticCallsFor(resolve(dirname(entries[k].output))) = 1
           /\ \A c \in DOMAIN original.setStatic :
                 \E k \in 1..Len(entries) :
                    c = <<join(original.config.assetPrefix, dirname(entries[k].output)),
                          resolve(dirname(entries[k].output))>>

\* the drain has completed: 'launch' was emitted and the aggregate is
\* fulfilled, every builder of the drain having been invoked and fulfilled
\* unless buildNone is set
DrainCompleted ==
    /\ launched > 0
    /\ aggregate.state = "fulfilled"
    /\ ~config.buildNone =>
          \A i \in 1..drainLen : IsInvoked(i) /\ Outcome(Cur, i) = "fulfilled"

(* C23: app.stop is called only in buildOnly mode, after 'launch' and when  *)
(* the drain has completed (every builder of the drain fulfilled, or at     *)
(* once with buildNone); process.exit is called only after app.stop.        *)
C23_StopAfterDrainExitAfterStop ==
    [][ exit' # exit =>
          \/ /\ exit = "none" /\ exit' = "stopping"
             /\ config.buildOnly
             /\ DrainCompleted
          \/ /\ exit = "stopping" /\ exit' = "exited" ]_vars

\* a buildOnly process has exited after a drain of two or more builders
C23_Witness ==
    /\ exit = "exited"
    /\ ~config.buildNone
    /\ drainLen >= 2

(* C24: a builder registered after 'launch' was emitted and before the      *)
(* deferred _buildingWhenReady ran is part of that drain: the drain maps    *)
(* over it and invokes it like the builders registered before 'launch' (in  *)
(* series mode in its turn, once the builders before it are fulfilled).     *)
C24_LateTaskIsDrained ==
    (Drained /\ ~config.buildNone) =>
        /\ launchLen <= drainLen
        /\ \A i \in (launchLen + 1)..drainLen :
              IsInvoked(i) <=>
                 \A j \in 1..(i-1) :
                    /\ IsInvoked(j)
                    /\ IF config.buildSeries THEN Outcome(Cur, j) = "fulfilled"
                       ELSE results[j].atReturn # "rejected"

\* the drain has invoked a builder registered after 'launch', next to one
\* registered before it
C24_Witness ==
    /\ Drained /\ ~config.buildNone
    /\ 1 <= launchLen /\ launchLen < drainLen
    /\ IsInvoked(drainLen)

(* C25: when webpack calls back more than once for a run (rebuilds in watch *)
(* mode), the promise of the run keeps the outcome of the first callback:   *)
(* once resolved it is never rejected, once rejected never resolved, and    *)
(* its reason does not change.                                              *)
C25_FirstCallbackDecides ==
    [][ \A id \in DOMAIN promises :
           promises[id].state # "pending" =>
              /\ id \in DOMAIN promises'
              /\ promises'[id].state = promises[id].state
              /\ promises'[id].err = promises[id].err ]_vars

\* webpack has called back twice for a run, the second time with an outcome
\* of the other kind than the one that settled the promise
C25_Witness ==
    \E id \in DOMAIN promises :
        /\ promises[id].callbacks >= 2
        /\ promises[id].state = "fulfilled"
        /\ WrittenFile(id) \notin files

(* C26: whenever the promise registered for an output file is resolved, the *)
(* bundled file exists at that path of the asset folder, also after later   *)
(* callbacks of a watching webpack for the same output.                     *)
C26_BuiltMeansFileExists ==
    \A f \in DOMAIN outputPaths :
        promises[outputPaths[f]].state = "fulfilled" =>
            WrittenFile(outputPaths[f]) \in files

\* the (entry, output) pairs bundle is called with
BundleCalls ==
    EarlyBundleArgs \cup BundleArgs \cup DirectBuilders
        \cup {[entry |-> script, output |-> basename(script)] : script \in Scripts}

(* C27: the registry is keyed by the output file alone: a call              *)
(* bundle(e2, p) made when p is registered from another entry e1 starts no  *)
(* build, changes nothing and returns the promise of e1's build; a builder  *)
(* that made such a call has started no run of its own.                     *)
C27_RegistryKeyedByOutputAlone ==
    /\ \A a \in BundleCalls :
          LET f == OutputFile(a.output)
              s == bundle(Cur, a.entry, a.output, 0)
          IN (f \in DOMAIN outputPaths /\ promises[outputPaths[f]].entry # a.entry) =>
                /\ s.ret = outputPaths[f]
                /\ [s EXCEPT !.ret = None] = Cur
    /\ \A i \in 1..Len(builders) :
          (IsInvoked(i) /\ results[i].threw = None
             /\ promises[results[i].promise].entry # builders[i].entry) =>
                /\ results[i].promise = outputPaths[OutputFile(builders[i].output)]
                /\ \A id \in DOMAIN promises : promises[id].by # i

\* a builder asked for an output registered from another entry and got the
\* promise of that entry's build
C27_Witness ==
    \E i \in 1..Len(builders) :
        /\ IsInvoked(i) /\ results[i].threw = None
        /\ promises[results[i].promise].entry # builders[i].entry
        /\ promises[results[i].promise].webpack # "none"

\* the builders includeScript registered for scripts of basename name, in
\* the order of registration, that the drain has invoked
InvokedFor(name) ==
    {i \in 1..Len(builders) :
        /\ IsInvoked(i)
        /\ builders[i].entry \in Scripts
        /\ basename(builders[i].entry) = name}

(* C28: includeScript takes the output path from basename(script) alone.    *)
(* Whatever the templates and the directories of the scripts, the builders  *)
(* of scripts that share a basename ask for one output file; at most one    *)
(* run is started for it, exactly one once the drain has invoked one of     *)
(* them, started by the first of them invoked; and all their suppliers      *)
(* return the same URL, routePrefix joined with the basename.               *)
C28_SharedBasenameBuiltOnce ==
    /\ \A i \in 1..Len(builders) :
          builders[i].entry \in Scripts => builders[i].output = basename(builders[i].entry)
    /\ \A script \in Scripts :
          LET name == basename(script)
              f == OutputFile(name)
              is == InvokedFor(name)
          IN /\ Cardinality(StartedRuns(f)) <= 1
             /\ is # {} =>
                   LET first == CHOOSE i \in is : \A j \in is : i <= j
                   IN /\ Cardinality(StartedRuns(f)) = 1
                      /\ \A id \in StartedRuns(f) :
                            /\ promises[id].by = first
                            /\ promises[id].entry = builders[first].entry
                      /\ \A i \in is : results[i].promise \in StartedRuns(f)
    /\ \A k \in 1..Len(renderContexts) :
          \E script \in Scripts :
             renderContexts[k].context.scripts = <<routePrefix \o <<Sep>> \o basename(script)>>
    /\ \A k, l \in 1..Len(renderContexts) :
          (\A s1, s2 \in Scripts : basename(s1) = basename(s2)) =>
             renderContexts[k].context.scripts = renderContexts[l].context.scripts

\* two templates include scripts of one basename from two directories, and
\* the drain has invoked both builders, of which the first started the run
C28_Witness ==
    \E i, j \in InvokedFor(<<"a.js">>) :
        /\ i < j
        /\ builders[i].entry # builders[j].entry
        /\ results[j].promise = results[i].promise
        /\ promises[results[i].promise].by = i
        /\ \E k, l \in 1..Len(renderContexts) :
              renderContexts[k].event # renderContexts[l].event

(* C29: a bundle(entry, p) call that throws because _establishRoute cannot  *)
(* create the output directory leaves the state as it was: as long as the   *)
(* registry holds no entry for p no run has been started for p, so that at  *)
(* most one run is ever started for p, also after a later call that         *)
(* succeeds.                                                                *)
C29_ThrowingBundleStartsNothing ==
    \A a \in BundleArgs :
        LET f == OutputFile(a.output)
        IN /\ f \notin DOMAIN outputPaths => StartedRuns(f) = {}
           /\ Cardinality(StartedRuns(f)) <= 1

\* a step leaves the cache entries in place: none is removed or replaced,
\* none is given another output file, and a build that has called back is
\* not running again
KeepsComponents ==
    \A entry \in DOMAIN componentCache :
        /\ entry \in DOMAIN componentCache'
        /\ componentCache'[entry].html = componentCache[entry].html
        /\ componentCache[entry].promise.vulcanize # "running" =>
              componentCache'[entry].promise = componentCache[entry].promise

\* a step settles a copy only when the promise of the first build is
\* settled, and a fulfilled copy has put the file at its output
CopiesAfterBuild ==
    /\ Len(copies') >= Len(copies)
    /\ \A k \in 1..Len(copies) :
          /\ copies'[k].entry = copies[k].entry /\ copies'[k].to = copies[k].to
          /\ copies'[k].state # copies[k].state =>
                /\ copies[k].state = "pending"
                /\ componentCache[copies[k].entry].promise.state # "pending"
                /\ copies'[k].state = "fulfilled" =>
                      /\ componentCache[copies[k].entry].html \in files
                      /\ copies[k].to \in files'
    /\ \A k \in (Len(copies) + 1)..Len(copies') :
          /\ copies'[k].state = "pending"
          /\ copies'[k].entry \in DOMAIN componentCache

(* C30: for an entry already in _componentCache, a later                    *)
(* _componentize(entry, otherOutput) starts no build and leaves the cache   *)
(* entry as it is; it copies the file of the first build to otherOutput     *)
(* only once the promise of the first build has settled.                    *)
C30_CachedComponentCopiedNotRebuilt ==
    [][KeepsComponents /\ CopiesAfterBuild]_vars

\* a cached entry was asked for under another output and the file of its
\* build has been copied there
C30_Witness ==
    \E k \in 1..Len(copies) :
        /\ copies[k].state = "fulfilled"
        /\ copies[k].to # componentCache[copies[k].entry].html
        /\ copies[k].to \in files
        /\ componentCache[copies[k].entry].promise.vulcanize = "done"

====
